---- MODULE Spec2Model ----
(***************************************************************************)
(* Model of the ctx command-wrapping engine: the tokenizer cache           *)
(* (internal/tokenizer/cache.go), the process execution and streaming      *)
(* engine (internal/executor) with its termination controller, and the     *)
(* command handler that consumes the engine's results (cmd).               *)
(***************************************************************************)
EXTENDS Integers, Sequences, FiniteSets, TLC

(***************************************************************************)
(* Bounds of the model.                                                    *)
(***************************************************************************)
NumCallers == 3
MaxBuilt == 3
MaxClears == 1
MaxProcs == 3
MaxWrites == 2

VARIABLES
  \* TokenizerCache
  cache,       \* c.cache: model name -> tokenizer instance (NoTok: no entry)
  muWriter,    \* c.mu: the caller holding the write lock, 0 if none
  muReaders,   \* c.mu: the callers holding the read lock
  cpc,         \* position of each caller inside GetOrCreate
  cmodel,      \* the modelName argument of the call in progress
  cret,        \* the tokenizer returned by the call (NoTok: nil)
  cerr,        \* the error returned by the call
  cepoch,      \* number of Clear calls completed when the call obtained cret
  nextTok,     \* identity of the next tokenizer the factory constructs
  built,       \* per model: constructions since the most recent Clear
  failedOnce,  \* per model: the factory has failed for it at least once
  clears,      \* number of Clear calls completed
  seen,        \* per caller: the answer of its Has or Size call in progress
  \* one invocation of ExecuteCommand / ExecuteCommandStreaming
  platform,    \* "posix" or "windows"
  mode,        \* "exec" (ExecuteCommand) or "stream" (ExecuteCommandStreaming)
  command,     \* "ok", "notfound" (cmd.Start fails) or "empty"
  jobOK,       \* Windows: createJobObject succeeds
  ctxErr,      \* ctx.Err() of the context the command runs under
  fired,       \* the cancellation triggers that have fired so far
  firstTrigger,\* the first cancel of the context: a trigger, or the deferred cancel()
  epc,         \* position of the calling goroutine
  procs,       \* the command's process tree
  rootStatus,  \* wait status of the direct child
  exitCtx,     \* ctx.Err() at the moment the direct child stopped running
  exitKpc,     \* position of cmd.Cancel at that moment
  wpc,         \* position of the goroutine of os/exec that watches ctx
  watchErr,    \* the error that goroutine hands to cmd.Wait
  kpc,         \* position inside each run of killProcessGroup
  sigLog,      \* the signals each run of killProcessGroup has sent
  kret,        \* the value each run of killProcessGroup returned
  jobMap,      \* Windows: the entry of this command in jobObjectMap
  pipesClosed, \* the parent's ends of the output pipes are closed
  waitErr,     \* the error of cmd.Wait
  result,      \* the ExecutionResult returned (NoResult: nil)
  retErr,      \* the error returned
  \* streaming
  maxLines, maxBytes, maxTokens, tok,   \* the limits and whether a tokenizer is given
  pipe,        \* per stream: lines written by the command and not yet read
  tpc,         \* per stream: position of the goroutine running streamPipe
  cur,         \* per stream: the line being processed
  detected,    \* per stream: the limit error streamPipe returned
  firstBreach, \* the kind of the breach detected first
  totalLines, totalBytes, totalTokens,  \* the shared atomic counters
  buf,         \* per stream: stdoutBuf / stderrBuf, as the lines written to it
  cbs,         \* per stream: the lines delivered to the callback
  limitErr,    \* the limit error recorded under limitErrMux
  written,     \* number of lines the command has written
  produced,    \* per stream: every line the command has written, in order
  hpc,         \* position of the command handler
  envelope,    \* metadata of the envelope the handler emitted
  resultEvents,\* number of terminal result events printed
  lateLine     \* a line event was delivered after the engine had returned

cacheVars == <<cache, muWriter, muReaders, cpc, cmodel, cret, cerr, cepoch,
               nextTok, built, failedOnce, clears, seen>>

execVars == <<platform, mode, command, jobOK, ctxErr, fired, firstTrigger, epc,
              procs, rootStatus, exitCtx, exitKpc, wpc, watchErr, kpc, sigLog, kret, jobMap,
              pipesClosed, waitErr, result, retErr>>

streamVars == <<maxLines, maxBytes, maxTokens, tok, pipe, tpc, cur, detected, firstBreach,
                totalLines, totalBytes, totalTokens, buf, cbs, limitErr, written, produced,
                hpc, envelope, resultEvents, lateLine>>

vars == <<cacheVars, execVars, streamVars>>

(***************************************************************************)
(* TokenizerCache (cache.go).                                              *)
(***************************************************************************)
Callers == 1..NumCallers
ModelNames == {"", "anthropic", "gemini"}
NoTok == 0

\* NewTokenizerCache: an empty map, an unlocked mutex.
NewTokenizerCache ==
  /\ cache = [m \in ModelNames |-> NoTok]
  /\ muWriter = 0
  /\ muReaders = {}


\* len(c.cache)
Size == Cardinality({m \in ModelNames : cache[m] # NoTok})

\* _, exists := c.cache[modelName]
Has(m) == cache[m] # NoTok

\* The double check under the write lock (a mutant skips it).
RecheckSkipped(m) == FALSE
Recheck(m) == Has(m)

\* What a failed construction leaves in the map (a mutant caches the failure).
FailedTok == -1
CacheAfterFailureMemo(m) == [cache EXCEPT ![m] = FailedTok]
CacheAfterFailure(m) == cache

\* GetOrCreate, entry: the empty model name is rejected before any lock.
GetOrCreateCall(p, m) ==
  /\ cpc[p] = "idle"
  /\ cmodel' = [cmodel EXCEPT ![p] = m]
  /\ IF m = ""
       THEN /\ cpc' = [cpc EXCEPT ![p] = "done"]
            /\ cerr' = [cerr EXCEPT ![p] = "empty"]
       ELSE /\ cpc' = [cpc EXCEPT ![p] = "rlock"]
            /\ cerr' = [cerr EXCEPT ![p] = "none"]
  /\ UNCHANGED <<cache, muWriter, muReaders, cret, cepoch, nextTok, built,
                 failedOnce, clears>>
  /\ UNCHANGED <<seen, execVars, streamVars>>

\* c.mu.RLock()
GetOrCreateRLock(p) ==
  /\ cpc[p] = "rlock"
  /\ muWriter = 0
  /\ muReaders' = muReaders \cup {p}
  /\ cpc' = [cpc EXCEPT ![p] = "rcheck"]
  /\ UNCHANGED <<cache, muWriter, cmodel, cret, cerr, cepoch, nextTok, built,
                 failedOnce, clears>>
  /\ UNCHANGED <<seen, execVars, streamVars>>

\* The fast path: look up under the read lock, unlock, return on a hit.
GetOrCreateFastPath(p) ==
  /\ cpc[p] = "rcheck"
  /\ muReaders' = muReaders \ {p}
  /\ IF Has(cmodel[p])
       THEN /\ cret' = [cret EXCEPT ![p] = cache[cmodel[p]]]
            /\ cepoch' = [cepoch EXCEPT ![p] = clears]
            /\ cpc' = [cpc EXCEPT ![p] = "done"]
       ELSE /\ cpc' = [cpc EXCEPT ![p] = "wlock"]
            /\ UNCHANGED <<cret, cepoch>>
  /\ UNCHANGED <<cache, muWriter, cmodel, cerr, nextTok, built, failedOnce, clears>>
  /\ UNCHANGED <<seen, execVars, streamVars>>

\* c.mu.Lock()
GetOrCreateLock(p) ==
  /\ cpc[p] = "wlock"
  /\ muWriter = 0
  /\ muReaders = {}
  /\ muWriter' = p
  /\ cpc' = [cpc EXCEPT ![p] = "wcheck"]
  /\ UNCHANGED <<cache, muReaders, cmodel, cret, cerr, cepoch, nextTok, built,
                 failedOnce, clears>>
  /\ UNCHANGED <<seen, execVars, streamVars>>

\* The double check; on a miss the factory is entered with the lock held.
GetOrCreateRecheck(p) ==
  /\ cpc[p] = "wcheck"
  /\ muWriter = p
  /\ IF Recheck(cmodel[p])
       THEN /\ cret' = [cret EXCEPT ![p] = cache[cmodel[p]]]
            /\ cepoch' = [cepoch EXCEPT ![p] = clears]
            /\ cpc' = [cpc EXCEPT ![p] = "done"]
            /\ muWriter' = 0
       ELSE /\ cpc' = [cpc EXCEPT ![p] = "create"]
            /\ UNCHANGED <<cret, cepoch, muWriter>>
  /\ UNCHANGED <<cache, muReaders, cmodel, cerr, nextTok, built, failedOnce, clears>>
  /\ UNCHANGED <<seen, execVars, streamVars>>

\* c.factory.CreateTokenizer succeeds: store, unlock (deferred), return.
GetOrCreateStore(p) ==
  /\ cpc[p] = "create"
  /\ muWriter = p
  /\ nextTok <= MaxBuilt
  /\ cache' = [cache EXCEPT ![cmodel[p]] = nextTok]
  /\ built' = [built EXCEPT ![cmodel[p]] = @ + 1]
  /\ nextTok' = nextTok + 1
  /\ cret' = [cret EXCEPT ![p] = nextTok]
  /\ cepoch' = [cepoch EXCEPT ![p] = clears]
  /\ cpc' = [cpc EXCEPT ![p] = "done"]
  /\ muWriter' = 0
  /\ UNCHANGED <<muReaders, cmodel, cerr, failedOnce, clears>>
  /\ UNCHANGED <<seen, execVars, streamVars>>

\* c.factory.CreateTokenizer fails: the error is wrapped and returned.
GetOrCreateFail(p) ==
  /\ cpc[p] = "create"
  /\ muWriter = p
  /\ cache' = CacheAfterFailure(cmodel[p])
  /\ cerr' = [cerr EXCEPT ![p] = "factory"]
  /\ failedOnce' = [failedOnce EXCEPT ![cmodel[p]] = TRUE]
  /\ cpc' = [cpc EXCEPT ![p] = "done"]
  /\ muWriter' = 0
  /\ UNCHANGED <<muReaders, cmodel, cret, cepoch, nextTok, built, clears>>
  /\ UNCHANGED <<seen, execVars, streamVars>>

\* The caller has its answer; its locals go out of scope and it may call again.
GetOrCreateReturn(p) ==
  /\ cpc[p] = "done"
  /\ cpc' = [cpc EXCEPT ![p] = "idle"]
  /\ cmodel' = [cmodel EXCEPT ![p] = ""]
  /\ cret' = [cret EXCEPT ![p] = NoTok]
  /\ cerr' = [cerr EXCEPT ![p] = "none"]
  /\ cepoch' = [cepoch EXCEPT ![p] = 0]
  /\ UNCHANGED <<cache, muWriter, muReaders, nextTok, built, failedOnce, clears>>
  /\ UNCHANGED <<seen, execVars, streamVars>>

\* The map after the loop of Clear has deleted every key (a mutant deletes
\* nothing).
AfterClearNothingDeleted == cache
AfterClear == [m \in ModelNames |-> NoTok]

\* Clear: under the write lock, delete every key.
Clear ==
  /\ muWriter = 0
  /\ muReaders = {}
  /\ clears < MaxClears
  /\ cache' = AfterClear
  /\ built' = [m \in ModelNames |-> 0]
  /\ clears' = clears + 1
  /\ UNCHANGED <<muWriter, muReaders, cpc, cmodel, cret, cerr, cepoch, nextTok,
                 failedOnce>>
  /\ UNCHANGED <<seen, execVars, streamVars>>

\* No Has or Size call in progress.
NotSeen == [has |-> FALSE, size |-> 0]

\* Has: RLock, look the name up; the read lock is held until the deferred
\* RUnlock.
HasCall(p, m) ==
  /\ cpc[p] = "idle"
  /\ muWriter = 0
  /\ muReaders' = muReaders \cup {p}
  /\ cpc' = [cpc EXCEPT ![p] = "has"]
  /\ cmodel' = [cmodel EXCEPT ![p] = m]
  /\ seen' = [seen EXCEPT ![p] = [has |-> Has(m), size |-> 0]]
  /\ UNCHANGED <<cache, muWriter, cret, cerr, cepoch, nextTok, built,
                 failedOnce, clears>>
  /\ UNCHANGED <<execVars, streamVars>>

\* Size: RLock, len(c.cache).
SizeCall(p) ==
  /\ cpc[p] = "idle"
  /\ muWriter = 0
  /\ muReaders' = muReaders \cup {p}
  /\ cpc' = [cpc EXCEPT ![p] = "size"]
  /\ seen' = [seen EXCEPT ![p] = [has |-> FALSE, size |-> Size]]
  /\ UNCHANGED <<cache, muWriter, cmodel, cret, cerr, cepoch, nextTok, built,
                 failedOnce, clears>>
  /\ UNCHANGED <<execVars, streamVars>>

\* The deferred RUnlock of Has and Size; the answer goes to the caller.
IntrospectReturn(p) ==
  /\ cpc[p] \in {"has", "size"}
  /\ muReaders' = muReaders \ {p}
  /\ cpc' = [cpc EXCEPT ![p] = "idle"]
  /\ cmodel' = [cmodel EXCEPT ![p] = ""]
  /\ seen' = [seen EXCEPT ![p] = NotSeen]
  /\ UNCHANGED <<cache, muWriter, cret, cerr, cepoch, nextTok, built,
                 failedOnce, clears>>
  /\ UNCHANGED <<execVars, streamVars>>

NextCache ==
  \/ \E p \in Callers, m \in ModelNames : GetOrCreateCall(p, m)
  \/ \E p \in Callers : GetOrCreateRLock(p)
  \/ \E p \in Callers : GetOrCreateFastPath(p)
  \/ \E p \in Callers : GetOrCreateLock(p)
  \/ \E p \in Callers : GetOrCreateRecheck(p)
  \/ \E p \in Callers : GetOrCreateStore(p)
  \/ \E p \in Callers : GetOrCreateFail(p)
  \/ \E p \in Callers : GetOrCreateReturn(p)
  \/ Clear


(***************************************************************************)
(* Process execution engine (ExecuteCommand, ExecuteCommandStreaming), the *)
(* termination controller (executor_unix.go and its Windows counterpart)   *)
(* and the parts of os/exec and of the operating system they rely on.      *)
(***************************************************************************)
Pids == 1..MaxProcs
Root == 1
NoProc == [st |-> "none", grp |-> FALSE, onTerm |-> "die", parent |-> 0]

\* The two places that run killProcessGroup: cmd.Cancel and the cleanup after Wait.
Runners == {"cancel", "cleanup"}

NoResult == [exitCode |-> 0, reason |-> "unset", output |-> <<>>]

\* The byte that ends a line.
NL == 0

\* The bytes of a buffer that holds the given lines, each written as
\* line + "\n": a line is represented by its own value followed by NL.
RECURSIVE Bytes(_)
Bytes(lines) ==
  IF lines = <<>> THEN <<>>
  ELSE <<Head(lines), NL>> \o Bytes(Tail(lines))

\* Lines 111-118 / 319-326: stdout, then stderr, with a newline put between
\* the two when neither is empty.
Combine(out, err) ==
  IF Len(err) > 0
    THEN (IF Len(out) > 0 THEN Append(out, NL) ELSE out) \o err
    ELSE out

\* Some process of the tree has been created by cmd.Start (cmd.Process != nil).
Started == procs[Root].st # "none"

Alive == {p \in Pids : procs[p].st = "alive"}

\* Members of the process group (POSIX) or of the job object (Windows).
GroupMembers == {p \in Pids : procs[p].grp /\ procs[p].st \in {"alive", "zombie"}}
GroupAlive == {p \in Pids : procs[p].grp /\ procs[p].st = "alive"}

\* The invocation has not returned to its caller yet.
Running == epc # "done"

\* What the processes in set T look like after a signal has killed them.
Killed(T) ==
  [p \in Pids |-> IF p \in T /\ procs[p].st = "alive"
                    THEN [procs[p] EXCEPT !.st = IF p = Root THEN "zombie" ELSE "gone"]
                    ELSE procs[p]]

\* The wait status of the direct child: ended by a signal (POSIX) or with the
\* exit code 1 that TerminateJobObject / TerminateProcess pass (Windows).
StatusAfterKill(T) ==
  IF Root \in T /\ procs[Root].st = "alive"
    THEN (IF platform = "posix" THEN "signal" ELSE "exit1")
    ELSE rootStatus

\* The state of the context at the moment the direct child stopped running.
ExitCtxAfterKill(T) ==
  IF Root \in T /\ procs[Root].st = "alive" THEN ctxErr ELSE exitCtx

\* The position of cmd.Cancel at the moment the direct child stopped running.
ExitKpcAfterKill(T) ==
  IF Root \in T /\ procs[Root].st = "alive" THEN kpc["cancel"] ELSE exitKpc

\* context: the first cancellation cause sticks (a mutant lets a later one overwrite it).
CtxCancelOverwrite(cause) == cause
CtxCancel(cause) == IF ctxErr = "none" THEN cause ELSE ctxErr

\* syscall.Kill(-pid, sig): the receivers of a signal sent to the whole group
\* (a mutant signals the direct child only).
KillTargetsChildOnly(sig) ==
  {p \in GroupAlive : p = Root /\ (sig = "SIGKILL" \/ procs[p].onTerm = "die")}
KillTargets(sig) ==
  {p \in GroupAlive : sig = "SIGKILL" \/ procs[p].onTerm = "die"}

\* syscall.Kill(-pid, sig) fails with ESRCH when the group has no member left.
KillOK == GroupMembers # {}

\* p.Kill() of os.Process reaches the direct child only; it fails once the child
\* has been waited for and, on Windows, once it has exited.
ProcessKillOK ==
  IF platform = "posix" THEN procs[Root].st \in {"alive", "zombie"}
  ELSE procs[Root].st = "alive"

\* ExitError.ExitCode(): the exit status, or -1 for a process ended by a signal
\* (a mutant reports 0 for it).
ExitCodeSignalAsSuccess(status) ==
  CASE status = "exit1" -> 1
    [] status = "exit2" -> 2
    [] OTHER -> 0
ExitCode(status) ==
  CASE status = "exit0" -> 0
    [] status = "exit1" -> 1
    [] status = "exit2" -> 2
    [] OTHER -> -1

\* Lines 101-109 / 309-317: the exit code of the result from the error of cmd.Wait.
ExitCodeOf(err, status) ==
  IF err = "nil" THEN 0
  ELSE IF err = "exit" THEN ExitCode(status)
  ELSE 1

\* Lines 128-133 / 336-341: termination_reason from ctx.Err() (a mutant reports
\* every finished context as a timeout).
TerminationReasonAlwaysTimeout(e) ==
  IF e = "none" THEN "absent" ELSE "timeout"
TerminationReason(e) ==
  IF e = "deadline" THEN "timeout"
  ELSE IF e = "canceled" THEN "cancelled"
  ELSE "absent"

(***************************************************************************)
(* The caller's context: a deadline expires or the caller cancels.         *)
(***************************************************************************)
CauseOf(trigger) == IF trigger = "timeout" THEN "deadline" ELSE "canceled"

Fire(trigger) ==
  /\ ctxErr' = CtxCancel(CauseOf(trigger))
  /\ fired' = fired \cup {trigger}
  /\ firstTrigger' = IF firstTrigger = "none" THEN trigger ELSE firstTrigger

CtxTrigger(trigger) ==
  /\ Running
  /\ trigger \in {"timeout", "cancel"}
  /\ trigger \notin fired
  /\ Fire(trigger)
  /\ UNCHANGED <<platform, mode, command, jobOK, epc, procs, rootStatus, exitCtx, exitKpc, wpc,
                 watchErr, kpc, sigLog, kret, jobMap, pipesClosed, waitErr,
                 result, retErr>>
  /\ UNCHANGED <<cacheVars, streamVars>>

(***************************************************************************)
(* The command's process tree.                                             *)
(***************************************************************************)
NextPid == CHOOSE c \in Pids : procs[c].st = "none" /\ \A d \in Pids : d < c => procs[d].st # "none"

\* fork: the child inherits the process group / job of its parent.
ProcFork(par, term) ==
  /\ Running
  /\ procs[par].st = "alive"
  /\ \E c \in Pids : procs[c].st = "none"
  /\ procs' = [procs EXCEPT ![NextPid] =
                 [st |-> "alive", grp |-> procs[par].grp, onTerm |-> term, parent |-> par]]
  /\ UNCHANGED <<platform, mode, command, jobOK, ctxErr, fired, firstTrigger, epc,
                 rootStatus, exitCtx, exitKpc, wpc, watchErr, kpc, sigLog, kret, jobMap, pipesClosed,
                 waitErr, result, retErr>>
  /\ UNCHANGED <<cacheVars, streamVars>>

\* A process exits on its own (possibly from its SIGTERM handler).
ProcExit(p, status) ==
  /\ Running
  /\ procs[p].st = "alive"
  /\ procs' = [procs EXCEPT ![p].st = IF p = Root THEN "zombie" ELSE "gone"]
  /\ rootStatus' = IF p = Root THEN status ELSE rootStatus
  /\ exitCtx' = IF p = Root THEN ctxErr ELSE exitCtx
  /\ exitKpc' = IF p = Root THEN kpc["cancel"] ELSE exitKpc
  /\ UNCHANGED <<platform, mode, command, jobOK, ctxErr, fired, firstTrigger, epc,
                 wpc, watchErr, kpc, sigLog, kret, jobMap, pipesClosed, waitErr,
                 result, retErr>>
  /\ UNCHANGED <<cacheVars, streamVars>>

\* setsid/setpgid: a descendant leaves the process group it inherited.
ProcSetsid(p) ==
  /\ Running
  /\ platform = "posix"
  /\ p # Root
  /\ procs[p].st = "alive"
  /\ procs[p].grp
  /\ procs' = [procs EXCEPT ![p].grp = FALSE]
  /\ UNCHANGED <<platform, mode, command, jobOK, ctxErr, fired, firstTrigger, epc,
                 rootStatus, exitCtx, exitKpc, wpc, watchErr, kpc, sigLog, kret, jobMap, pipesClosed,
                 waitErr, result, retErr>>
  /\ UNCHANGED <<cacheVars, streamVars>>

(***************************************************************************)
(* killProcessGroup.                                                       *)
(***************************************************************************)
Sent(r, sig, ok) == [sigLog EXCEPT ![r] = Append(@, <<sig, ok>>)]

\* POSIX, lines 24-36: SIGTERM to the group; if that fails SIGKILL at once,
\* and if that fails too the group is gone and the call returns nil.
killSIGTERM(r) ==
  /\ platform = "posix"
  /\ kpc[r] = "begin"
  /\ IF ~Started
       THEN /\ kpc' = [kpc EXCEPT ![r] = "done"]
            /\ kret' = [kret EXCEPT ![r] = "nil"]
            /\ UNCHANGED <<procs, rootStatus, exitCtx, exitKpc, sigLog>>
       ELSE IF KillOK
         THEN /\ procs' = Killed(KillTargets("SIGTERM"))
              /\ rootStatus' = StatusAfterKill(KillTargets("SIGTERM"))
              /\ exitCtx' = ExitCtxAfterKill(KillTargets("SIGTERM"))
              /\ exitKpc' = ExitKpcAfterKill(KillTargets("SIGTERM"))
              /\ sigLog' = Sent(r, "SIGTERM", TRUE)
              /\ kpc' = [kpc EXCEPT ![r] = "sleep"]
              /\ UNCHANGED kret
         ELSE /\ sigLog' = [sigLog EXCEPT ![r] = @ \o << <<"SIGTERM", FALSE>>, <<"SIGKILL", FALSE>> >>]
              /\ kpc' = [kpc EXCEPT ![r] = "done"]
              /\ kret' = [kret EXCEPT ![r] = "nil"]
              /\ UNCHANGED <<procs, rootStatus, exitCtx, exitKpc>>
  /\ UNCHANGED <<platform, mode, command, jobOK, ctxErr, fired, firstTrigger, epc,
                 wpc, watchErr, jobMap, pipesClosed, waitErr, result, retErr>>
  /\ UNCHANGED <<cacheVars, streamVars>>

\* POSIX, lines 38-52: once time.Sleep(gracePeriod) is over, SIGKILL to the
\* group, errors ignored, return nil.
killSIGKILL(r) ==
  /\ kpc[r] = "sleep"
  /\ procs' = Killed(KillTargets("SIGKILL"))
  /\ rootStatus' = StatusAfterKill(KillTargets("SIGKILL"))
  /\ exitCtx' = ExitCtxAfterKill(KillTargets("SIGKILL"))
  /\ exitKpc' = ExitKpcAfterKill(KillTargets("SIGKILL"))
  /\ sigLog' = Sent(r, "SIGKILL", KillOK)
  /\ kpc' = [kpc EXCEPT ![r] = "done"]
  /\ kret' = [kret EXCEPT ![r] = "nil"]
  /\ UNCHANGED <<platform, mode, command, jobOK, ctxErr, fired, firstTrigger, epc,
                 wpc, watchErr, jobMap, pipesClosed, waitErr, result, retErr>>
  /\ UNCHANGED <<cacheVars, streamVars>>

\* Windows: TerminateJobObject (on failure Process.Kill), CloseHandle (which
\* kills what is left in the job: KILL_ON_JOB_CLOSE), delete the map entry;
\* without a job object the direct child is killed and that error returned.
killJobObject(r, terminateOK) ==
  /\ platform = "windows"
  /\ kpc[r] = "begin"
  /\ IF jobMap = "open"
       THEN /\ procs' = Killed(GroupAlive \cup (IF terminateOK THEN {} ELSE {Root}))
            /\ rootStatus' = StatusAfterKill(GroupAlive \cup
                               (IF terminateOK THEN {} ELSE {Root}))
            /\ exitCtx' = ExitCtxAfterKill(GroupAlive \cup
                               (IF terminateOK THEN {} ELSE {Root}))
            /\ exitKpc' = ExitKpcAfterKill(GroupAlive \cup
                               (IF terminateOK THEN {} ELSE {Root}))
            /\ sigLog' = IF terminateOK
                           THEN Sent(r, "TerminateJobObject", TRUE)
                           ELSE [sigLog EXCEPT ![r] = @ \o
                                  << <<"TerminateJobObject", FALSE>>,
                                     <<"Process.Kill", ProcessKillOK>> >>]
            /\ jobMap' = "released"
            /\ kret' = [kret EXCEPT ![r] = "nil"]
       ELSE /\ terminateOK
            /\ procs' = IF Started THEN Killed({Root}) ELSE procs
            /\ rootStatus' = IF Started THEN StatusAfterKill({Root}) ELSE rootStatus
            /\ exitCtx' = IF Started THEN ExitCtxAfterKill({Root}) ELSE exitCtx
            /\ exitKpc' = IF Started THEN ExitKpcAfterKill({Root}) ELSE exitKpc
            /\ sigLog' = IF Started THEN Sent(r, "Process.Kill", ProcessKillOK) ELSE sigLog
            /\ kret' = [kret EXCEPT ![r] =
                          IF ~Started \/ ProcessKillOK THEN "nil"
                          ELSE IF procs[Root].st = "gone" THEN "ErrProcessDone"
                          ELSE "error"]
            /\ UNCHANGED jobMap
  /\ kpc' = [kpc EXCEPT ![r] = "done"]
  /\ UNCHANGED <<platform, mode, command, jobOK, ctxErr, fired, firstTrigger, epc,
                 wpc, watchErr, pipesClosed, waitErr, result, retErr>>
  /\ UNCHANGED <<cacheVars, streamVars>>

(***************************************************************************)
(* os/exec: the goroutine cmd.Start launches to watch the context          *)
(* (watchCtx), as configured by configureTermination (Cancel, WaitDelay).  *)
(***************************************************************************)
\* ctx is done while the command runs: call cmd.Cancel = killProcessGroup.
watchCtxCancel ==
  /\ wpc = "watching"
  /\ ctxErr # "none"
  /\ wpc' = "cancel"
  /\ kpc' = [kpc EXCEPT !["cancel"] = "begin"]
  /\ UNCHANGED <<platform, mode, command, jobOK, ctxErr, fired, firstTrigger, epc,
                 procs, rootStatus, exitCtx, exitKpc, watchErr, sigLog, kret, jobMap, pipesClosed,
                 waitErr, result, retErr>>
  /\ UNCHANGED <<cacheVars, streamVars>>

\* cmd.Cancel has returned: the error Wait is to report, then the WaitDelay timer.
watchCtxCancelled ==
  /\ wpc = "cancel"
  /\ kpc["cancel"] = "done"
  /\ watchErr' = IF kret["cancel"] = "nil" THEN "ctx"
                 ELSE IF kret["cancel"] = "ErrProcessDone" THEN "nil"
                 ELSE "cancelerr"
  /\ wpc' = "delay"
  /\ UNCHANGED <<platform, mode, command, jobOK, ctxErr, fired, firstTrigger, epc,
                 procs, rootStatus, exitCtx, exitKpc, kpc, sigLog, kret, jobMap, pipesClosed,
                 waitErr, result, retErr>>
  /\ UNCHANGED <<cacheVars, streamVars>>

\* WaitDelay elapses before Wait has seen the exit: Process.Kill, and the
\* output pipes the copying goroutines still read are closed.
watchCtxWaitDelay ==
  /\ wpc = "delay"
  /\ procs' = Killed({Root})
  /\ rootStatus' = StatusAfterKill({Root})
  /\ exitCtx' = ExitCtxAfterKill({Root})
  /\ exitKpc' = ExitKpcAfterKill({Root})
  /\ pipesClosed' = (pipesClosed \/ (mode = "exec" /\ Alive # {}))
  /\ watchErr' = IF ~ProcessKillOK /\ procs[Root].st # "gone" THEN "killerr"
                 ELSE IF watchErr = "nil" /\ ~ProcessKillOK /\ mode = "exec" /\ Alive # {}
                   THEN "waitdelay"
                 ELSE watchErr
  /\ wpc' = "expired"
  /\ UNCHANGED <<platform, mode, command, jobOK, ctxErr, fired, firstTrigger, epc,
                 kpc, sigLog, kret, jobMap, waitErr, result, retErr>>
  /\ UNCHANGED <<cacheVars, streamVars>>

(***************************************************************************)
(* ExecuteCommand / ExecuteCommandStreaming, the calling goroutine.        *)
(***************************************************************************)
\* ExecuteCommandStreaming, line 204: defer cancel() of the derived context.
DeferredCancel == IF mode = "stream" THEN CtxCancel("canceled") ELSE ctxErr
DeferredFirst == IF mode = "stream" /\ firstTrigger = "none" THEN "return" ELSE firstTrigger

\* Lines 38-75 / 206-249: build the command (an empty command is rejected),
\* setupProcessGroup (Windows: create the job object, register it in
\* jobObjectMap), configureTermination.
BuildCommand ==
  /\ epc = "build"
  /\ IF command = "empty"
       THEN /\ epc' = "done"
            /\ retErr' = "empty command"
            /\ ctxErr' = DeferredCancel
            /\ firstTrigger' = DeferredFirst
            /\ UNCHANGED jobMap
       ELSE /\ epc' = "start"
            /\ jobMap' = IF platform = "windows" /\ jobOK THEN "open" ELSE "none"
            /\ UNCHANGED <<retErr, ctxErr, firstTrigger>>
  /\ UNCHANGED <<platform, mode, command, jobOK, fired,
                 procs, rootStatus, exitCtx, exitKpc, wpc, watchErr, kpc, sigLog, kret, pipesClosed,
                 waitErr, result>>
  /\ UNCHANGED <<cacheVars, streamVars>>

\* cmd.Start(): fails when the executable cannot be run, and with ctx.Err()
\* when the context is already done; otherwise the child exists (on POSIX
\* already leader of its own group: Setpgid) and the context is watched (a
\* mutant starts a command whose executable is missing).
StartErrorNotFoundIgnored == IF ctxErr # "none" THEN "ctx" ELSE "nil"
StartError == IF command = "notfound" THEN "start" ELSE IF ctxErr # "none" THEN "ctx" ELSE "nil"

Start(term) ==
  /\ epc = "start"
  /\ IF StartError # "nil"
       THEN /\ epc' = "done"
            /\ retErr' = StartError
            /\ pipesClosed' = TRUE
            /\ ctxErr' = DeferredCancel
            /\ firstTrigger' = DeferredFirst
            /\ UNCHANGED <<procs, wpc>>
       ELSE /\ epc' = "assoc"
            /\ procs' = [procs EXCEPT ![Root] =
                  [st |-> "alive", grp |-> (platform = "posix"), onTerm |-> term, parent |-> 0]]
            /\ wpc' = "watching"
            /\ UNCHANGED <<retErr, pipesClosed, ctxErr, firstTrigger>>
  /\ UNCHANGED <<platform, mode, command, jobOK, fired,
                 rootStatus, exitCtx, exitKpc, watchErr, kpc, sigLog, kret, jobMap, waitErr, result>>
  /\ UNCHANGED <<cacheVars, streamVars>>

\* associateProcessWithJobObject: a no-op on POSIX; on Windows OpenProcess and
\* AssignProcessToJobObject, whose error is ignored by the caller.
Associate(assignOK) ==
  /\ epc = "assoc"
  /\ IF platform = "windows" /\ jobMap = "open" /\ assignOK /\ procs[Root].st = "alive"
       THEN procs' = [procs EXCEPT ![Root].grp = TRUE]
       ELSE /\ procs' = procs
            /\ (platform = "posix" \/ jobMap # "open") => assignOK
  /\ epc' = IF mode = "stream" THEN "wgwait" ELSE "wait"
  /\ UNCHANGED <<platform, mode, command, jobOK, ctxErr, fired, firstTrigger,
                 rootStatus, exitCtx, exitKpc, wpc, watchErr, kpc, sigLog, kret, jobMap, pipesClosed,
                 waitErr, result, retErr>>
  /\ UNCHANGED <<cacheVars, streamVars>>

\* cmd.Wait, first part: Process.Wait blocks until the direct child has exited.
WaitProcess ==
  /\ epc = "wait"
  /\ procs[Root].st = "zombie"
  /\ procs' = [procs EXCEPT ![Root].st = "gone"]
  /\ waitErr' = IF rootStatus = "exit0" THEN "nil" ELSE "exit"
  /\ epc' = "wait_ctx"
  /\ UNCHANGED <<platform, mode, command, jobOK, ctxErr, fired, firstTrigger,
                 rootStatus, exitCtx, exitKpc, wpc, watchErr, kpc, sigLog, kret, jobMap, pipesClosed,
                 result, retErr>>
  /\ UNCHANGED <<cacheVars, streamVars>>

\* cmd.Wait, second part: take the result of watchCtx (which is not available
\* while cmd.Cancel runs); its error is used when Process.Wait reported none.
WaitCtxResult ==
  /\ epc = "wait_ctx"
  /\ wpc \in {"watching", "delay", "expired"}
  /\ waitErr' = IF wpc # "watching" /\ waitErr = "nil" /\ watchErr # "nil"
                  THEN watchErr ELSE waitErr
  /\ wpc' = "stopped"
  /\ epc' = "wait_io"
  /\ UNCHANGED <<platform, mode, command, jobOK, ctxErr, fired, firstTrigger,
                 procs, rootStatus, exitCtx, exitKpc, watchErr, kpc, sigLog, kret, jobMap, pipesClosed,
                 result, retErr>>
  /\ UNCHANGED <<cacheVars, streamVars>>

\* cmd.Wait, third part (awaitGoroutines): the goroutines copying into the
\* stdout/stderr buffers end when every holder of the pipes is gone; failing
\* that, WaitDelay after the exit the pipes are closed (ErrWaitDelay).
\* With StdoutPipe/StderrPipe there is no copying goroutine to wait for.
WaitIO ==
  /\ epc = "wait_io"
  /\ waitErr' = IF mode = "exec" /\ ~pipesClosed /\ Alive # {} /\ waitErr = "nil"
                  THEN "waitdelay" ELSE waitErr
  /\ pipesClosed' = TRUE
  /\ epc' = "ctxcheck"
  /\ UNCHANGED <<platform, mode, command, jobOK, ctxErr, fired, firstTrigger,
                 procs, rootStatus, exitCtx, exitKpc, wpc, watchErr, kpc, sigLog, kret, jobMap,
                 result, retErr>>
  /\ UNCHANGED <<cacheVars, streamVars>>

\* Lines 94-97 / 297-300: if the context is done, killProcessGroup once more.
CleanupCheck ==
  /\ epc = "ctxcheck"
  /\ IF ctxErr # "none"
       THEN /\ epc' = "cleanup"
            /\ kpc' = [kpc EXCEPT !["cleanup"] = "begin"]
       ELSE /\ epc' = "assemble"
            /\ UNCHANGED kpc
  /\ UNCHANGED <<platform, mode, command, jobOK, ctxErr, fired, firstTrigger,
                 procs, rootStatus, exitCtx, exitKpc, wpc, watchErr, sigLog, kret, jobMap, pipesClosed,
                 waitErr, result, retErr>>
  /\ UNCHANGED <<cacheVars, streamVars>>

\* killProcessGroup has returned to ExecuteCommand; its error is dropped.
CleanupDone ==
  /\ epc = "cleanup"
  /\ kpc["cleanup"] = "done"
  /\ epc' = "assemble"
  /\ UNCHANGED <<platform, mode, command, jobOK, ctxErr, fired, firstTrigger,
                 procs, rootStatus, exitCtx, exitKpc, wpc, watchErr, kpc, sigLog, kret, jobMap,
                 pipesClosed, waitErr, result, retErr>>
  /\ UNCHANGED <<cacheVars, streamVars>>

\* ExecuteCommand, lines 99-136: exit code, termination_reason from ctx.Err(),
\* return of the result with a nil error.
AssembleResult ==
  /\ epc = "assemble"
  /\ mode = "exec"
  /\ result' = [exitCode |-> ExitCodeOf(waitErr, rootStatus),
                reason |-> TerminationReason(ctxErr),
                output |-> Combine(Bytes(buf["stdout"]), Bytes(buf["stderr"]))]
  /\ retErr' = "nil"
  /\ epc' = "done"
  /\ UNCHANGED <<platform, mode, command, jobOK, ctxErr, fired, firstTrigger,
                 procs, rootStatus, exitCtx, exitKpc, wpc, watchErr, kpc, sigLog, kret, jobMap,
                 pipesClosed, waitErr>>
  /\ UNCHANGED <<cacheVars, streamVars>>

(***************************************************************************)
(* Streaming ingestion: the two goroutines of ExecuteCommandStreaming that *)
(* run streamPipe, and the command's writes into the two pipes.            *)
(***************************************************************************)
Streams == {"stdout", "stderr"}

\* bufio.Scanner gives up (ErrTooLong) on a line that does not fit its buffer.
MaxScanTokenSize == 65536
LineLens == {1, MaxScanTokenSize}

\* The lines of the runs that look at the content of the output.
Lines == {1, 2, MaxScanTokenSize}

\* Output that ends without a newline: a negative value is a final fragment
\* of that many bytes.
Fragments == {-1}
Unterminated(line) == line < 0

\* len(line)
LineLen(line) == IF line < 0 THEN 0 - line ELSE line

\* CountTokens of a line (one token per byte in this model).
CountTokens(line) == LineLen(line)

\* The kind of the limit breach that was detected first in the invocation.
FirstBreachAfter(kind) == IF firstBreach = "nil" THEN kind ELSE firstBreach

\* Positions of a task at which streamPipe has returned (deferred wg.Done and
\* pipe.Close have run).
PipeReturned == {"failed", "cancel", "exit"}

execUnchanged ==
  UNCHANGED <<platform, mode, command, jobOK, ctxErr, fired, firstTrigger, epc,
              procs, rootStatus, exitCtx, exitKpc, wpc, watchErr, kpc, sigLog, kret, jobMap,
              pipesClosed, waitErr, result, retErr>>

\* A process of the tree writes one line to stdout or stderr.
ProcWrite(p, t, line) ==
  /\ Running
  /\ mode = "stream"
  /\ procs[p].st = "alive"
  /\ written < MaxWrites
  /\ tpc[t] \notin PipeReturned
  /\ produced[t] # <<>> => ~Unterminated(produced[t][Len(produced[t])])
  /\ pipe' = [pipe EXCEPT ![t] = Append(@, line)]
  /\ written' = written + 1
  /\ produced' = [produced EXCEPT ![t] = Append(@, line)]
  /\ execUnchanged
  /\ UNCHANGED <<maxLines, maxBytes, maxTokens, tok, tpc, cur, detected, firstBreach,
                 totalLines, totalBytes, totalTokens, buf, cbs, limitErr,
                 hpc, envelope, resultEvents, lateLine>>
  /\ UNCHANGED cacheVars

\* No more bytes can arrive on a pipe: no process holds the write side any
\* more (or the pipe was closed by a failed Start).
WritersGone == pipesClosed \/ (Started /\ Alive = {})

\* The read side of a pipe is at end of file.
AtEOF(t) == pipe[t] = <<>> /\ WritersGone

\* Lines 369-378: scanner.Scan() yields the next line (at end of file also the
\* remaining bytes that no newline ends), or false at end of file,
\* on a read error and on a line that is too long (streamPipe then returns
\* nil); with a line limit, atomic add on the line counter, then compare.
streamPipeScan(t) ==
  /\ tpc[t] = "scan"
  /\ \/ /\ pipe[t] # <<>>
        /\ Head(pipe[t]) < MaxScanTokenSize
        /\ Unterminated(Head(pipe[t])) => WritersGone
        /\ cur' = [cur EXCEPT ![t] = Head(pipe[t])]
        /\ IF maxLines > 0
             THEN /\ totalLines' = totalLines + 1
                  /\ IF totalLines + 1 > maxLines
                       THEN /\ detected' = [detected EXCEPT ![t] = "line"]
                            /\ firstBreach' = FirstBreachAfter("line")
                            /\ tpc' = [tpc EXCEPT ![t] = "failed"]
                            /\ pipe' = [pipe EXCEPT ![t] = <<>>]
                       ELSE /\ tpc' = [tpc EXCEPT ![t] = "bytes"]
                            /\ pipe' = [pipe EXCEPT ![t] = Tail(@)]
                            /\ UNCHANGED <<detected, firstBreach>>
             ELSE /\ tpc' = [tpc EXCEPT ![t] = "bytes"]
                  /\ pipe' = [pipe EXCEPT ![t] = Tail(@)]
                  /\ UNCHANGED <<totalLines, detected, firstBreach>>
     \/ /\ pipe[t] # <<>>
        /\ Head(pipe[t]) >= MaxScanTokenSize
        /\ pipe' = [pipe EXCEPT ![t] = <<>>]
        /\ tpc' = [tpc EXCEPT ![t] = "exit"]
        /\ UNCHANGED <<cur, totalLines, detected, firstBreach>>
     \/ /\ AtEOF(t)
        /\ tpc' = [tpc EXCEPT ![t] = "exit"]
        /\ UNCHANGED <<cur, pipe, totalLines, detected, firstBreach>>
  /\ execUnchanged
  /\ UNCHANGED <<maxLines, maxBytes, maxTokens, tok, totalBytes, totalTokens,
                 buf, cbs, limitErr, written, produced, hpc, envelope, resultEvents, lateLine>>
  /\ UNCHANGED cacheVars

\* Lines 380-384: atomic add of len(line)+1 on the byte counter, then compare.
streamPipeBytes(t) ==
  /\ tpc[t] = "bytes"
  /\ totalBytes' = totalBytes + LineLen(cur[t]) + 1
  /\ IF maxBytes > 0 /\ totalBytes + LineLen(cur[t]) + 1 > maxBytes
       THEN /\ detected' = [detected EXCEPT ![t] = "output"]
            /\ firstBreach' = FirstBreachAfter("output")
            /\ tpc' = [tpc EXCEPT ![t] = "failed"]
            /\ pipe' = [pipe EXCEPT ![t] = <<>>]
       ELSE /\ tpc' = [tpc EXCEPT ![t] = IF tok /\ maxTokens > 0 THEN "tokens" ELSE "accept"]
            /\ UNCHANGED <<detected, firstBreach, pipe>>
  /\ execUnchanged
  /\ UNCHANGED <<maxLines, maxBytes, maxTokens, tok, cur, totalLines,
                 totalTokens, buf, cbs, limitErr, written, produced, hpc, envelope, resultEvents,
                 lateLine>>
  /\ UNCHANGED cacheVars

\* Line 389: where streamPipe goes on when CountTokens returned an error (a
\* mutant gives the line up).
AfterCountErrorGiveUp == "failed"
AfterCountError == "accept"

\* Lines 386-395: best-effort token count, atomic add, compare.
streamPipeTokens(t, countOK) ==
  /\ tpc[t] = "tokens"
  /\ IF countOK
       THEN /\ totalTokens' = totalTokens + CountTokens(cur[t])
            /\ IF totalTokens + CountTokens(cur[t]) > maxTokens
                 THEN /\ detected' = [detected EXCEPT ![t] = "token"]
                      /\ firstBreach' = FirstBreachAfter("token")
                      /\ tpc' = [tpc EXCEPT ![t] = "failed"]
                      /\ pipe' = [pipe EXCEPT ![t] = <<>>]
                 ELSE /\ tpc' = [tpc EXCEPT ![t] = "accept"]
                      /\ UNCHANGED <<detected, firstBreach, pipe>>
       ELSE /\ tpc' = [tpc EXCEPT ![t] = AfterCountError]
            /\ UNCHANGED <<totalTokens, detected, firstBreach, pipe>>
  /\ execUnchanged
  /\ UNCHANGED <<maxLines, maxBytes, maxTokens, tok, cur, totalLines,
                 totalBytes, buf, cbs, limitErr, written, produced, hpc, envelope, resultEvents,
                 lateLine>>
  /\ UNCHANGED cacheVars

\* Appending a line at the end of what a stream has accepted so far (a mutant
\* puts it in front).
DeliverFirst(lines, line) == <<line>> \o lines
Deliver(lines, line) == Append(lines, line)

\* Lines 397-401: buf.WriteString(line + "\n"), then cb(line, streamType) is
\* entered, the per-line event of the caller.
streamPipeAccept(t) ==
  /\ tpc[t] = "accept"
  /\ buf' = [buf EXCEPT ![t] = Deliver(@, cur[t])]
  /\ cbs' = [cbs EXCEPT ![t] = Deliver(@, cur[t])]
  /\ lateLine' = (lateLine \/ resultEvents > 0 \/ epc = "done")
  /\ tpc' = [tpc EXCEPT ![t] = "cb"]
  /\ execUnchanged
  /\ UNCHANGED <<maxLines, maxBytes, maxTokens, tok, pipe, cur, detected, firstBreach,
                 totalLines, totalBytes, totalTokens, limitErr, written, produced,
                 hpc, envelope, resultEvents>>
  /\ UNCHANGED cacheVars

\* Line 401: the callback returns and the loop goes on to the next Scan.
callbackReturn(t) ==
  /\ tpc[t] = "cb"
  /\ tpc' = [tpc EXCEPT ![t] = "scan"]
  /\ execUnchanged
  /\ UNCHANGED <<maxLines, maxBytes, maxTokens, tok, pipe, cur, detected, firstBreach,
                 totalLines, totalBytes, totalTokens, buf, cbs, limitErr, written,
                 produced, hpc, envelope, resultEvents, lateLine>>
  /\ UNCHANGED cacheVars

\* Lines 262-264 / 270-274: record the error under limitErrMux; the stdout
\* goroutine assigns, the stderr goroutine assigns only if none is recorded.
RecordedLimitErr(t) ==
  IF t = "stdout" THEN detected[t]
  ELSE IF limitErr = "nil" THEN detected[t] ELSE limitErr

goroutineRecord(t) ==
  /\ tpc[t] = "failed"
  /\ limitErr' = RecordedLimitErr(t)
  /\ tpc' = [tpc EXCEPT ![t] = "cancel"]
  /\ execUnchanged
  /\ UNCHANGED <<maxLines, maxBytes, maxTokens, tok, pipe, cur, detected, firstBreach,
                 totalLines, totalBytes, totalTokens, buf, cbs, written, produced,
                 hpc, envelope, resultEvents, lateLine>>
  /\ UNCHANGED cacheVars

\* Lines 265 / 275: cancel() of the derived context.
goroutineCancel(t) ==
  /\ tpc[t] = "cancel"
  /\ Fire("limit")
  /\ tpc' = [tpc EXCEPT ![t] = "exit"]
  /\ UNCHANGED <<platform, mode, command, jobOK, epc, procs, rootStatus, exitCtx, exitKpc, wpc,
                 watchErr, kpc, sigLog, kret, jobMap, pipesClosed, waitErr,
                 result, retErr>>
  /\ UNCHANGED <<maxLines, maxBytes, maxTokens, tok, pipe, cur, detected, firstBreach,
                 totalLines, totalBytes, totalTokens, buf, cbs, limitErr, written, produced,
                 hpc, envelope, resultEvents, lateLine>>
  /\ UNCHANGED cacheVars

\* Line 292: wg.Wait().
WaitGroupWait ==
  /\ epc = "wgwait"
  /\ \A t \in Streams : tpc[t] \in PipeReturned
  /\ epc' = "wait"
  /\ UNCHANGED <<platform, mode, command, jobOK, ctxErr, fired, firstTrigger,
                 procs, rootStatus, exitCtx, exitKpc, wpc, watchErr, kpc, sigLog, kret, jobMap,
                 pipesClosed, waitErr, result, retErr>>
  /\ UNCHANGED <<cacheVars, streamVars>>

\* Lines 304-307: read limitErr under the mutex.
ReadLimitErr ==
  /\ epc = "assemble"
  /\ mode = "stream"
  /\ retErr' = limitErr
  /\ epc' = "assemble2"
  /\ UNCHANGED <<platform, mode, command, jobOK, ctxErr, fired, firstTrigger,
                 procs, rootStatus, exitCtx, exitKpc, wpc, watchErr, kpc, sigLog, kret, jobMap,
                 pipesClosed, waitErr, result>>
  /\ UNCHANGED <<cacheVars, streamVars>>

\* Lines 309-348: exit code, termination_reason, return (result, finalLimitErr);
\* the deferred cancel() runs on the way out.
AssembleStreamResult ==
  /\ epc = "assemble2"
  /\ result' = [exitCode |-> ExitCodeOf(waitErr, rootStatus),
                reason |-> TerminationReason(ctxErr),
                output |-> Combine(Bytes(buf["stdout"]), Bytes(buf["stderr"]))]
  /\ ctxErr' = DeferredCancel
  /\ firstTrigger' = DeferredFirst
  /\ epc' = "done"
  /\ UNCHANGED <<platform, mode, command, jobOK, fired,
                 procs, rootStatus, exitCtx, exitKpc, wpc, watchErr, kpc, sigLog, kret, jobMap,
                 pipesClosed, waitErr, retErr>>
  /\ UNCHANGED <<cacheVars, streamVars>>

(***************************************************************************)
(* The command handlers, after the engine has returned.                    *)
(***************************************************************************)
NoEnvelope == [success |-> FALSE, failureReason |-> "unset"]

\* models.NewOutput: Metadata.Success is exitCode == 0.
NewOutput(exitCode) == [success |-> (exitCode = 0), failureReason |-> ""]

\* The tokens of the whole output (one token per byte of a line).
RECURSIVE OutputTokens(_)
OutputTokens(output) ==
  IF output = <<>> THEN 0
  ELSE CountTokens(Head(output)) + OutputTokens(Tail(output))

\* Enricher.EnrichOutput: NewOutput of the result; Tokens is the count over
\* result.Output when a tokenizer is available and counting succeeds, else 0.
\* Then the handlers' check of Tokens against Config.MaxTokens.
EnrichAndCheck(countOK) ==
  IF maxTokens > 0 /\ tok /\ countOK /\ OutputTokens(result.output) > maxTokens
    THEN [success |-> FALSE, failureReason |-> "token_limit_exceeded"]
    ELSE NewOutput(result.exitCode)

\* The switch on the engine's error in ExecuteStreamCommand.
FailureReason(err) ==
  IF err = "line" THEN "line_limit_exceeded"
  ELSE IF err = "output" THEN "output_limit_exceeded"
  ELSE IF err = "token" THEN "token_limit_exceeded"
  ELSE ""

\* ExecuteStreamCommand, lines 385-417: on an error the handler prints it as
\* an event and builds the envelope from result.Output, which dereferences a
\* nil result; lines 419-448: otherwise it enriches the result, checks the
\* token count and prints the terminal event.
ExecuteStreamCommandFinish(countOK) ==
  /\ hpc = "engine"
  /\ epc = "done"
  /\ mode = "stream"
  /\ IF retErr # "nil"
       THEN /\ countOK
            /\ IF result = NoResult
                 THEN /\ hpc' = "panic"
                      /\ UNCHANGED <<resultEvents, envelope>>
                 ELSE /\ hpc' = "returned"
                      /\ envelope' = [success |-> FALSE,
                                      failureReason |-> FailureReason(retErr)]
                      /\ resultEvents' = resultEvents + 1
       ELSE /\ hpc' = "returned"
            /\ envelope' = EnrichAndCheck(countOK)
            /\ resultEvents' = resultEvents + 1
  /\ execUnchanged
  /\ UNCHANGED <<maxLines, maxBytes, maxTokens, tok, pipe, tpc, cur, detected, firstBreach,
                 totalLines, totalBytes, totalTokens, buf, cbs, limitErr, written, produced,
                 lateLine>>
  /\ UNCHANGED cacheVars

\* executeSingleCommand, lines 135-170: on an error the envelope is built from
\* the error's text with exit code 1 (the result is not used); otherwise the
\* result is enriched, the token count checked and the envelope printed.
executeSingleCommandFinish(countOK) ==
  /\ hpc = "engine"
  /\ epc = "done"
  /\ mode = "exec"
  /\ IF retErr # "nil"
       THEN /\ countOK
            /\ envelope' = NewOutput(1)
       ELSE envelope' = EnrichAndCheck(countOK)
  /\ hpc' = "returned"
  /\ execUnchanged
  /\ UNCHANGED <<maxLines, maxBytes, maxTokens, tok, pipe, tpc, cur, detected, firstBreach,
                 totalLines, totalBytes, totalTokens, buf, cbs, limitErr, written, produced,
                 resultEvents, lateLine>>
  /\ UNCHANGED cacheVars

(***************************************************************************)
(* Specifications.                                                         *)
(***************************************************************************)
CacheIdle ==
  /\ NewTokenizerCache
  /\ cpc = [p \in Callers |-> "idle"]
  /\ cmodel = [p \in Callers |-> ""]
  /\ cret = [p \in Callers |-> NoTok]
  /\ cerr = [p \in Callers |-> "none"]
  /\ cepoch = [p \in Callers |-> 0]
  /\ nextTok = 1
  /\ built = [m \in ModelNames |-> 0]
  /\ failedOnce = [m \in ModelNames |-> FALSE]
  /\ clears = 0
  /\ seen = [p \in Callers |-> NotSeen]

\* The state of an invocation on entry to ExecuteCommand(Streaming).
ExecEntry ==
  /\ ctxErr = "none"
  /\ fired = {}
  /\ firstTrigger = "none"
  /\ epc = "build"
  /\ procs = [p \in Pids |-> NoProc]
  /\ rootStatus = "none"
  /\ exitCtx = "unset"
  /\ exitKpc = "unset"
  /\ wpc = "off"
  /\ watchErr = "nil"
  /\ kpc = [r \in Runners |-> "idle"]
  /\ sigLog = [r \in Runners |-> <<>>]
  /\ kret = [r \in Runners |-> "unset"]
  /\ jobMap = "none"
  /\ pipesClosed = FALSE
  /\ waitErr = "unset"
  /\ result = NoResult
  /\ retErr = "unset"

StreamEntry ==
  /\ pipe = [t \in Streams |-> <<>>]
  /\ tpc = [t \in Streams |-> "scan"]
  /\ cur = [t \in Streams |-> 0]
  /\ detected = [t \in Streams |-> "nil"]
  /\ firstBreach = "nil"
  /\ totalLines = 0
  /\ totalBytes = 0
  /\ totalTokens = 0
  /\ buf = [t \in Streams |-> <<>>]
  /\ cbs = [t \in Streams |-> <<>>]
  /\ limitErr = "nil"
  /\ written = 0
  /\ produced = [t \in Streams |-> <<>>]
  /\ hpc = "engine"
  /\ envelope = NoEnvelope
  /\ resultEvents = 0
  /\ lateLine = FALSE

NoLimits == maxLines = 0 /\ maxBytes = 0 /\ maxTokens = 0 /\ tok = FALSE

InitCache == CacheIdle /\ ExecEntry /\ StreamEntry /\ NoLimits
  /\ platform = "posix" /\ mode = "exec" /\ command = "ok" /\ jobOK = TRUE

InitExec ==
  /\ CacheIdle /\ ExecEntry /\ StreamEntry /\ NoLimits
  /\ mode = "exec"
  /\ platform \in {"posix", "windows"}
  /\ command \in {"ok", "notfound", "empty"}
  /\ jobOK \in BOOLEAN
  /\ platform = "posix" => jobOK

\* The limit configurations explored: none, each ceiling alone, all together.
Limits == {<<0, 0, 0, FALSE>>, <<1, 0, 0, FALSE>>, <<0, 3, 0, FALSE>>,
           <<0, 0, 1, TRUE>>, <<2, 5, 2, TRUE>>}

InitStream ==
  /\ CacheIdle /\ ExecEntry /\ StreamEntry
  /\ mode = "stream"
  /\ platform = "posix"
  /\ jobOK = TRUE
  /\ command \in {"ok", "notfound"}
  /\ \E l \in Limits :
       maxLines = l[1] /\ maxBytes = l[2] /\ maxTokens = l[3] /\ tok = l[4]

Terms == {"die", "ignore"}

NextTree ==
  \/ \E par \in Pids, term \in Terms : ProcFork(par, term)
  \/ \E p \in Pids, status \in {"exit0", "exit2"} : ProcExit(p, status)
  \/ \E p \in Pids : ProcSetsid(p)

NextRun ==
  \/ \E r \in Runners : killSIGTERM(r)
  \/ \E r \in Runners : killSIGKILL(r)
  \/ watchCtxCancel
  \/ watchCtxCancelled
  \/ watchCtxWaitDelay
  \/ BuildCommand
  \/ \E term \in Terms : Start(term)
  \/ \E assignOK \in BOOLEAN : Associate(assignOK)
  \/ WaitProcess
  \/ WaitCtxResult
  \/ WaitIO
  \/ CleanupCheck
  \/ CleanupDone

NextEngine ==
  \/ \E trigger \in {"timeout", "cancel"} : CtxTrigger(trigger)
  \/ NextRun

NextExec ==
  \/ NextTree
  \/ NextEngine
  \/ \E r \in Runners, terminateOK \in BOOLEAN : killJobObject(r, terminateOK)
  \/ AssembleResult

NextIngest ==
  \/ \E t \in Streams : streamPipeScan(t)
  \/ \E t \in Streams : streamPipeBytes(t)
  \/ \E t \in Streams, countOK \in BOOLEAN : streamPipeTokens(t, countOK)
  \/ \E t \in Streams : streamPipeAccept(t)
  \/ \E t \in Streams : callbackReturn(t)
  \/ \E t \in Streams : goroutineRecord(t)
  \/ \E t \in Streams : goroutineCancel(t)
  \/ WaitGroupWait
  \/ ReadLimitErr
  \/ AssembleStreamResult
  \/ \E countOK \in BOOLEAN : ExecuteStreamCommandFinish(countOK)

NextStream ==
  \/ ProcExit(Root, "exit0")
  \/ NextEngine
  \/ \E p \in Pids, t \in Streams, line \in LineLens : ProcWrite(p, t, line)
  \/ NextIngest

\* Streaming without a deadline or a caller's cancellation, with lines that differ.
NextLines ==
  \/ ProcExit(Root, "exit0")
  \/ NextRun
  \/ \E p \in Pids, t \in Streams, line \in Lines \cup Fragments :
       ProcWrite(p, t, line)
  \/ NextIngest

\* Both engines and their handlers, with commands that may fail to start.
InitSpawn ==
  /\ CacheIdle /\ ExecEntry /\ StreamEntry
  /\ mode \in {"exec", "stream"}
  /\ platform = "posix"
  /\ jobOK = TRUE
  /\ command \in {"ok", "notfound", "empty"}
  /\ \E l \in Limits :
       maxLines = l[1] /\ maxBytes = l[2] /\ maxTokens = l[3] /\ tok = l[4]

NextSpawn ==
  \/ NextStream
  \/ AssembleResult
  \/ \E countOK \in BOOLEAN : executeSingleCommandFinish(countOK)

\* Streaming under ceilings that the first line of each stream can breach.
TightLimits == {<<1, 1, 0, FALSE>>, <<1, 0, 1, TRUE>>}

InitBreach ==
  /\ CacheIdle /\ ExecEntry /\ StreamEntry
  /\ mode = "stream"
  /\ platform = "posix"
  /\ jobOK = TRUE
  /\ command \in {"ok", "notfound"}
  /\ \E l \in TightLimits :
       maxLines = l[1] /\ maxBytes = l[2] /\ maxTokens = l[3] /\ tok = l[4]

\* Streaming of a command that forks, without output.
InitStreamTree ==
  /\ CacheIdle /\ ExecEntry /\ StreamEntry /\ NoLimits
  /\ mode = "stream"
  /\ platform = "posix"
  /\ jobOK = TRUE
  /\ command = "ok"

\* The steps of the goroutine that called ExecuteCommandStreaming.
MainSteps ==
  \/ BuildCommand
  \/ \E term \in Terms : Start(term)
  \/ \E assignOK \in BOOLEAN : Associate(assignOK)
  \/ WaitGroupWait
  \/ WaitProcess
  \/ WaitCtxResult
  \/ WaitIO
  \/ CleanupCheck
  \/ CleanupDone
  \/ ReadLimitErr
  \/ AssembleStreamResult

\* The steps of the goroutine of os/exec that watches the context.
WatchSteps == watchCtxCancel \/ watchCtxCancelled \/ watchCtxWaitDelay

\* The steps of killProcessGroup.
KillSteps == \E r \in Runners : killSIGTERM(r) \/ killSIGKILL(r)

\* The steps of the two goroutines that run streamPipe.
TaskSteps == \E t \in Streams : streamPipeScan(t)

NextStreamTree ==
  \/ NextTree
  \/ CtxTrigger("timeout")
  \/ MainSteps
  \/ WatchSteps
  \/ KillSteps
  \/ TaskSteps

\* The goroutines are scheduled and the deadline expires; the processes of the
\* command are under no obligation.
SpecStreamTree ==
  /\ InitStreamTree /\ [][NextStreamTree]_vars
  /\ WF_vars(CtxTrigger("timeout"))
  /\ WF_vars(MainSteps)
  /\ WF_vars(WatchSteps)
  /\ WF_vars(KillSteps)
  /\ WF_vars(TaskSteps)

\* The cache with its introspection helpers.
NextIntrospect ==
  \/ NextCache
  \/ \E p \in Callers, m \in ModelNames : HasCall(p, m)
  \/ \E p \in Callers : SizeCall(p)
  \/ \E p \in Callers : IntrospectReturn(p)

SpecCache == InitCache /\ [][NextCache]_vars
SpecIntrospect == InitCache /\ [][NextIntrospect]_vars
SpecExec == InitExec /\ [][NextExec]_vars
SpecStream == InitStream /\ [][NextStream]_vars
SpecLines == InitStream /\ [][NextLines]_vars
SpecSpawn == InitSpawn /\ [][NextSpawn]_vars
SpecBreach == InitBreach /\ [][NextStream]_vars

Answered(p) == cpc[p] = "done" /\ cerr[p] = "none"

(***************************************************************************)
(* C1: concurrent first-time GetOrCreate(M) calls construct exactly one    *)
(* Tokenizer for M, and every call (concurrent or later) that is answered  *)
(* from the current contents of the cache returns that one instance.       *)
(***************************************************************************)
C1_SingleInstance ==
  /\ \A m \in ModelNames : built[m] <= 1
  /\ \A m \in ModelNames : Has(m) <=> built[m] = 1
  /\ \A p \in Callers :
       Answered(p) /\ cepoch[p] = clears => cret[p] = cache[cmodel[p]] /\ cret[p] # NoTok
  /\ \A p, q \in Callers :
       Answered(p) /\ Answered(q) /\ cmodel[p] = cmodel[q] /\ cepoch[p] = cepoch[q]
         => cret[p] = cret[q]

\* Two callers that both missed on the fast path have both returned.
C1_Witness ==
  \E p, q \in Callers :
    /\ p # q /\ Answered(p) /\ Answered(q)
    /\ cmodel[p] = cmodel[q] /\ cret[p] = cret[q] /\ cret[p] # NoTok
    /\ \E r \in Callers : r # p /\ r # q /\ cpc[r] = "wlock" /\ cmodel[r] = cmodel[p]

(***************************************************************************)
(* C2: a factory failure is returned to the caller and leaves the cache    *)
(* unchanged; an error is only ever the result of a factory call made by   *)
(* this very call (or of the empty name), so a later call constructs again *)
(* and caches the tokenizer.                                               *)
(***************************************************************************)
C2_FailureStep(p) == cpc[p] = "create" /\ cpc'[p] = "done" /\ cerr'[p] = "factory"

C2_FailureNotCached ==
  /\ [][\A p \in Callers : C2_FailureStep(p) =>
          /\ cache' = cache
          /\ ~Has(cmodel[p])'
          /\ cret'[p] = NoTok]_vars
  /\ [][\A p \in Callers :
          (cpc[p] # "done" /\ cpc'[p] = "done" /\ cmodel'[p] # "" /\ cpc[p] # "create")
             => cerr'[p] = "none" /\ cret'[p] \in 1..MaxBuilt]_vars
  /\ [](\A m \in ModelNames : cache[m] \in 0..MaxBuilt)

\* After a failure for M a later call has constructed and cached M.
C2_Witness ==
  \E p \in Callers :
    /\ failedOnce[cmodel[p]] /\ Answered(p) /\ Has(cmodel[p])
    /\ cret[p] = cache[cmodel[p]]
    /\ \E q \in Callers : q # p /\ cmodel[q] = cmodel[p] /\ cerr[q] = "factory"


(***************************************************************************)
(* C3: when ExecuteCommand returns a result, no process of the command's   *)
(* tree is alive any more.                                                 *)
(***************************************************************************)
C3_NoSurvivor ==
  (epc = "done" /\ result # NoResult) => Alive = {}

(***************************************************************************)
(* C4: every completed run of the termination protocol on a started        *)
(* command has sent the graceful signal to the group first and the         *)
(* forceful kill last (a failed graceful signal leading directly to the    *)
(* forceful one), and has returned no error.                               *)
(***************************************************************************)
C4_ProtocolOrder ==
  \A r \in Runners :
    (kpc[r] = "done" /\ Started) =>
      /\ kret[r] = "nil"
      /\ Len(sigLog[r]) = 2
      /\ sigLog[r][1][1] = "SIGTERM"
      /\ sigLog[r][2][1] = "SIGKILL"
      /\ (~sigLog[r][1][2] => ~sigLog[r][2][2])

NaturalExit == rootStatus \in {"exit0", "exit2"} /\ exitCtx = "none"

(***************************************************************************)
(* C5: the termination_reason of a returned result is absent when the      *)
(* direct child exited on its own before any trigger had fired, "timeout"  *)
(* when the deadline fired first and "cancelled" when the external         *)
(* cancellation fired first.                                               *)
(***************************************************************************)
C5_TerminationReason ==
  (epc = "done" /\ result # NoResult) =>
    /\ NaturalExit => result.reason = "absent"
    /\ (~NaturalExit /\ firstTrigger = "timeout") => result.reason = "timeout"
    /\ (~NaturalExit /\ firstTrigger = "cancel") => result.reason = "cancelled"
    /\ firstTrigger = "none" => result.reason = "absent"

ReasonOf(trigger) ==
  IF trigger = "timeout" THEN "timeout"
  ELSE IF trigger \in {"cancel", "limit"} THEN "cancelled"
  ELSE "absent"

engineVars == <<platform, mode, command, jobOK, ctxErr, firstTrigger, epc, procs,
                rootStatus, exitCtx, exitKpc, wpc, watchErr, kpc, sigLog, kret, jobMap,
                pipesClosed, waitErr, result, retErr, pipe, cur, detected,
                totalLines, totalBytes, totalTokens, buf, cbs, limitErr, written, produced,
                hpc, resultEvents, lateLine>>

(***************************************************************************)
(* C6: cancellation is idempotent.  Once the context is done its cause     *)
(* never changes; a trigger that fires when the context is already done    *)
(* changes nothing in the invocation; cmd.Cancel (the termination          *)
(* protocol) is started at most once; and the result carries the reason of *)
(* the trigger that fired first.                                           *)
(***************************************************************************)
C6_Idempotent ==
  /\ [][ctxErr # "none" => ctxErr' = ctxErr]_vars
  /\ [][firstTrigger # "none" => firstTrigger' = firstTrigger]_vars
  /\ [][(ctxErr # "none" /\ fired' # fired) => UNCHANGED engineVars]_vars
  /\ [][kpc'["cancel"] = "begin" => kpc["cancel"] \in {"idle", "begin"}]_vars
  /\ []((epc = "done" /\ result # NoResult)
          => result.reason = ReasonOf(firstTrigger))

\* A limit breach cancelled the invocation first, the deadline and the
\* caller's cancellation fired later, and the result says "cancelled".
C6_Witness ==
  /\ epc = "done"
  /\ firstTrigger = "limit"
  /\ fired = {"limit", "timeout", "cancel"}
  /\ kpc["cancel"] = "done"
  /\ result.reason = "cancelled"

(***************************************************************************)
(* C7: whenever a timeout or an external cancellation has fired during an  *)
(* invocation of a runnable command, ExecuteCommand returns a result with  *)
(* a nil error and the cause recorded as its termination_reason.           *)
(***************************************************************************)
C7_CancelIsNoError ==
  (epc = "done" /\ command = "ok" /\ fired # {}) =>
    /\ retErr = "nil"
    /\ result # NoResult
    /\ result.reason = ReasonOf(firstTrigger)

Accepted(f) == Len(f["stdout"]) + Len(f["stderr"])

(***************************************************************************)
(* C8: when only the line ceiling L is breached, exactly L lines were      *)
(* accepted (L callbacks, L buffered lines) and ErrLineLimitExceeded is    *)
(* returned.                                                               *)
(***************************************************************************)
C8_ExactlyL ==
  (/\ epc = "done"
   /\ maxLines > 0
   /\ \E t \in Streams : detected[t] = "line"
   /\ \A t \in Streams : detected[t] \in {"nil", "line"})
    => /\ Accepted(cbs) = maxLines
       /\ Accepted(buf) = maxLines
       /\ retErr = "line"

(***************************************************************************)
(* C9: once a stream task has detected a breached ceiling, the invocation  *)
(* returns a non-nil result together with one of the three limit errors.   *)
(***************************************************************************)
C9_LimitReturned ==
  (epc = "done" /\ \E t \in Streams : detected[t] # "nil") =>
    /\ result # NoResult
    /\ retErr \in {"line", "output", "token"}

(***************************************************************************)
(* C10: once the streaming handler is through, the terminal result event   *)
(* has been emitted exactly once, and no line event was delivered after    *)
(* the engine had returned.                                                *)
(***************************************************************************)
C10_ResultOnceAndLast ==
  /\ ~lateLine
  /\ hpc # "engine" => resultEvents = 1

\* s is an initial segment of t.
IsPrefix(s, t) == Len(s) <= Len(t) /\ SubSeq(t, 1, Len(s)) = s

\* The lines a stream task has taken from its pipe and not yet accepted.
InFlight(t) == IF tpc[t] \in {"bytes", "tokens", "accept"} THEN <<cur[t]>> ELSE <<>>

(***************************************************************************)
(* C11: for each stream, the buffer and the callback sequence hold the     *)
(* same lines, and these are the first lines the process wrote to that     *)
(* stream, in the order it wrote them; while the task is reading, the      *)
(* accepted lines, the line being processed and the unread lines together  *)
(* are exactly what was written.                                           *)
(***************************************************************************)
C11_StreamOrder ==
  \A t \in Streams :
    /\ buf[t] = cbs[t]
    /\ IsPrefix(cbs[t], produced[t])
    /\ tpc[t] \notin PipeReturned =>
         cbs[t] \o InFlight(t) \o pipe[t] = produced[t]

\* Two different lines of one stream were accepted in the order written.
C11_Witness ==
  /\ epc = "done"
  /\ \E t \in Streams : cbs[t] = <<2, 1>> /\ produced[t] = <<2, 1>>

(***************************************************************************)
(* C12: once its deadline has expired, an invocation always eventually     *)
(* returns, whatever the processes of the command do.                      *)
(***************************************************************************)
C12_EventuallyReturns == <>(epc = "done")

\* cmd.Wait reported the exit of the direct child and nothing else.
ReapedNormally == waitErr \in {"nil", "exit"}

(***************************************************************************)
(* C13: the exit code of a returned result is the exit code of the direct  *)
(* child when it exited by itself and was reaped normally, and 1 when it   *)
(* was ended by a signal or cmd.Wait reported another error.               *)
(***************************************************************************)
C13_ExitCode ==
  (epc = "done" /\ result # NoResult) =>
    /\ (ReapedNormally /\ rootStatus \in {"exit0", "exit1", "exit2"})
         => result.exitCode = ExitCode(rootStatus)
    /\ rootStatus = "signal" => result.exitCode = 1
    /\ ~ReapedNormally => result.exitCode = 1

\* The direct child was ended by the termination protocol, not by itself.
RootKilled == rootStatus \in {"signal", "exit1"}

(***************************************************************************)
(* C14: when the deadline fired first and the direct child was ended by    *)
(* the termination protocol, the returned result has a non-zero exit code  *)
(* and the termination_reason "timeout".                                   *)
(***************************************************************************)
C14_TimeoutNonZero ==
  (epc = "done" /\ result # NoResult /\ firstTrigger = "timeout" /\ RootKilled)
    => result.exitCode # 0 /\ result.reason = "timeout"

\* A command with two nested descendants was killed on its deadline.
C14_Witness ==
  /\ epc = "done"
  /\ firstTrigger = "timeout"
  /\ rootStatus = "signal"
  /\ result.exitCode = -1
  /\ procs[2].st = "gone" /\ procs[3].st = "gone" /\ procs[3].parent = 2

TrappedAndExited ==
  /\ platform = "posix"
  /\ firstTrigger = "timeout"
  /\ procs[Root].onTerm = "ignore"
  /\ rootStatus = "exit0"
  /\ exitKpc = "sleep"

\* C15: if, after a timeout fired, the process traps the graceful signal and
\* exits 0 within the grace period, the result's exit code is 0 and no
\* forceful kill is sent to the group.
C15_GracefulExit ==
  (epc = "done" /\ result # NoResult /\ TrappedAndExited) =>
    /\ result.exitCode = 0
    /\ \A i \in 1..Len(sigLog["cancel"]) : sigLog["cancel"][i].sig # "SIGKILL"

\* C16: the result's combined output is the captured stdout bytes followed
\* by the captured stderr bytes, their concatenation, whatever the two
\* streams hold.
C16_CombinedOutput ==
  (epc = "done" /\ result # NoResult) =>
    result.output = Bytes(buf["stdout"]) \o Bytes(buf["stderr"])

FragmentOf(t) ==
  IF produced[t] # <<>> /\ Unterminated(produced[t][Len(produced[t])])
    THEN {produced[t][Len(produced[t])]}
    ELSE {}

\* C17: a final line that no newline ends is not emitted as a line event (no
\* callback, and it never counts as a breach of a limit), and it is in the
\* buffered output.
C17_FragmentNotALine ==
  \A t \in Streams :
    /\ \A i \in 1..Len(cbs[t]) : ~Unterminated(cbs[t][i])
    /\ tpc[t] = "failed" => ~Unterminated(cur[t])
    /\ (epc = "done" /\ result # NoResult /\ FragmentOf(t) # {} /\ retErr = "nil")
         => \E i \in 1..Len(result.output) : result.output[i] \in FragmentOf(t)

SpawnFails == command \in {"notfound", "empty"}

\* C18: when the command cannot be spawned, the invocation fails at once
\* with an error and no result, no termination signal is ever sent, no
\* process exists and no line callback is invoked, in ExecuteCommand and in
\* ExecuteCommandStreaming.
C18_SpawnFailure ==
  SpawnFails =>
    /\ epc \in {"build", "start", "done"}
    /\ epc = "done" => retErr \in {"start", "empty command"} /\ result = NoResult
    /\ \A r \in Runners : sigLog[r] = <<>> /\ kpc[r] = "idle"
    /\ ~Started
    /\ \A t \in Streams : cbs[t] = <<>> /\ buf[t] = <<>>

C18_Witness ==
  /\ command = "notfound" /\ mode = "stream"
  /\ epc = "done" /\ retErr = "start" /\ fired = {"timeout"}
  /\ \A t \in Streams : tpc[t] = "exit"

\* C19: no expected failure path panics: the engine and the handler that
\* consumes its return values finish by reporting an error or a result and
\* never dereference an absent result.
C19_NoPanic == hpc # "panic"

Breached == {detected[t] : t \in Streams} \ {"nil"}

\* C20: when a configured limit (lines, output bytes or tokens) is exceeded,
\* the command is terminated and the emitted envelope has success = false
\* and the failure reason of a limit that was exceeded.
C20_LimitEnvelope ==
  (hpc = "returned" /\ Breached # {}) =>
    /\ Alive = {}
    /\ envelope.success = FALSE
    /\ \E e \in Breached : envelope.failureReason = FailureReason(e)

\* The model names successfully created since the most recent Clear.
Created == {m \in ModelNames : built[m] > 0}

IntrospectStep ==
  \/ \E p \in Callers, m \in ModelNames : HasCall(p, m)
  \/ \E p \in Callers : SizeCall(p)
  \/ \E p \in Callers : IntrospectReturn(p)

\* C21: under any interleaving of GetOrCreate, Clear, Has and Size, the
\* cache holds exactly the names successfully created since the most recent
\* Clear: Size answers their number (0 right after Clear), Has(M) answers
\* true exactly for them, and Has and Size never change the cache.
C21_CacheContents ==
  /\ [](/\ {m \in ModelNames : cache[m] # NoTok} = Created
        /\ \A p \in Callers :
             /\ cpc[p] = "has" => (seen[p].has <=> cmodel[p] \in Created)
             /\ cpc[p] = "size" => seen[p].size = Cardinality(Created))
  /\ [][Clear => Size' = 0 /\ Created' = {}]_vars
  /\ [][IntrospectStep => cache' = cache /\ built' = built]_vars

\* A Size call answers 2 after two names were created while a Has call of
\* another caller answers true.
C21_Witness ==
  \E p, q \in Callers :
    /\ cpc[p] = "size" /\ seen[p].size = 2
    /\ cpc[q] = "has" /\ seen[q].has
    /\ clears = 1

\* C22: a token count that fails on a line is ignored: the token counter is
\* left unchanged, no limit error and no cancellation comes of it, the line
\* goes on to be buffered and delivered to the callback, and the goroutine
\* then scans the next line; a token limit error is only ever the result of
\* counts that succeeded.
C22_CountFailureIgnored ==
  /\ [][\A t \in Streams :
          streamPipeTokens(t, FALSE) =>
            /\ totalTokens' = totalTokens
            /\ detected' = detected /\ limitErr' = limitErr /\ ctxErr' = ctxErr
            /\ tpc'[t] = "accept" /\ cur'[t] = cur[t]]_vars
  /\ [][\A t \in Streams :
          (tpc[t] = "accept" /\ tpc'[t] # "accept") =>
            /\ buf'[t] = Append(buf[t], cur[t])
            /\ cbs'[t] = Append(cbs[t], cur[t])
            /\ tpc'[t] = "cb"]_vars
  /\ [][\A t \in Streams :
          (tpc[t] = "cb" /\ tpc'[t] # "cb") => tpc'[t] = "scan"]_vars
  /\ [](\A t \in Streams : detected[t] = "token" => totalTokens > maxTokens)

\* With a ceiling of one token, two lines were delivered and none counted.
C22_Witness ==
  /\ maxTokens = 1 /\ tok
  /\ cbs["stdout"] = <<1, 1>> /\ buf["stdout"] = <<1, 1>>
  /\ totalTokens = 0
  /\ epc = "done" /\ retErr = "nil"

NaturallyExited == NaturalExit
Terminated == Started /\ procs[Root].st = "gone"

\* C23: the termination protocol is started only while the invocation is
\* Running: once the process has exited naturally, or has been terminated
\* and reaped, the protocol is not started and no signal is sent to the
\* group.
C23_NoSignalAfterEnd ==
  [][(NaturallyExited \/ Terminated) =>
       /\ sigLog' = sigLog
       /\ \A r \in Runners : kpc[r] = "idle" => kpc'[r] = "idle"]_vars

\* C24: the group exists before the process is started and the process is a
\* member of it before it can spawn a descendant: on POSIX the started
\* process is in its group from the start, and on Windows, once the process
\* is in the job object, every live process of its tree is in it too.
C24_NoEscapeByRace ==
  /\ (platform = "posix" /\ Started) => procs[Root].grp
  /\ (platform = "windows" /\ Started /\ procs[Root].grp) =>
       \A p \in Pids : procs[p].st = "alive" => procs[p].grp

\* C25: once an invocation has returned, by natural exit, cancellation or
\* spawn failure, its group handle is closed and no entry for it is left in
\* the job-object registry.
C25_GroupReleased == epc = "done" => jobMap # "open"

\* C26: the lock of the cache is not held while the factory constructs a
\* tokenizer, so a construction for one model never keeps a concurrent
\* lookup of another model, one that is cached already, from taking the
\* read lock.
C26_LookupNotBlocked ==
  \A p, q \in Callers :
    (/\ cpc[p] = "create"
     /\ cpc[q] = "rlock" /\ cmodel[q] # cmodel[p] /\ Has(cmodel[q]))
      => ENABLED GetOrCreateRLock(q)

BothBreached == \A t \in Streams : detected[t] # "nil"

\* C27: when both stream tasks detect a breach, a limit error that
\* ExecuteCommandStreaming returns is of the kind of the breach detected
\* first, whether that one was on stdout or on stderr.
C27_FirstBreachReturned ==
  (epc = "done" /\ result # NoResult /\ BothBreached /\ retErr # "nil")
    => retErr = firstBreach

\* The number of bytes of a sequence of line texts and newlines.
RECURSIVE ByteLen(_)
ByteLen(bytes) ==
  IF bytes = <<>> THEN 0
  ELSE (IF Head(bytes) = NL THEN 1 ELSE LineLen(Head(bytes))) + ByteLen(Tail(bytes))

\* C28: with a byte ceiling B > 0 the bytes accepted into the two buffers
\* never exceed B together, and the combined output of the result is never
\* longer than B.
C28_OutputWithinCeiling ==
  maxBytes > 0 =>
    /\ ByteLen(Bytes(buf["stdout"])) + ByteLen(Bytes(buf["stderr"])) <= maxBytes
    /\ (epc = "done" /\ result # NoResult) => ByteLen(result.output) <= maxBytes

\* C29: the per-line callback never runs for two lines at the same time:
\* the stdout task and the stderr task are never both inside it.
C29_CallbackExclusive ==
  ~(tpc["stdout"] = "cb" /\ tpc["stderr"] = "cb")

\* C30: without limits and without cancellation, every line the process has
\* written before it exits, whatever its length, has been delivered to the
\* callback and is in the buffers when the call returns without an error.
C30_EveryLineDelivered ==
  (NoLimits /\ epc = "done" /\ result # NoResult /\ retErr = "nil") =>
    \A t \in Streams : cbs[t] = produced[t] /\ buf[t] = produced[t]

====
